---------------------------- MODULE Spec2Model ----------------------------
(***************************************************************************)
(* PyMart: a client of a BioMart web service.                              *)
(*                                                                         *)
(* The model covers PyMart/base.py (DataBase, DataSet) and the fetch_data  *)
(* function of PyMart/funcs.py under Spec, where the service answers every *)
(* request, and the connection, the failing requests, FrontBase and the    *)
(* other functions of PyMart/funcs.py under SpecService, and two instances *)
(* of one class with the objects their fields refer to under SpecPair.  A  *)
(* name (of an attribute, a filter, a dataset, or one typed by the user) is *)
(* a sequence of one-character                                             *)
(* strings, because the matching code looks inside names (letter case,     *)
(* substrings, underscores).  A filter value is a Python value: a record   *)
(* tagged with its Python type.  The text written into the query document  *)
(* for a filter value is a TLA+ string.                                    *)
(***************************************************************************)
EXTENDS Integers, Sequences, FiniteSets, TLC

VARIABLES
    server,   \* what the remote service holds: dataset configuration, dataset list
    db,       \* the DataBase object of the session (exists = FALSE: none built)
    ds,       \* the DataSet object of the session (exists = FALSE: none built)
    call,     \* the call in progress or just finished: arguments and outcome
    fb,       \* the FrontBase object of the session (exists = FALSE: none built)
    received, \* how many requests of each type the service has answered
    pair,     \* the two instances of one class of a session that builds two
    heap      \* the list and table objects that the fields of pair refer to

vars == <<server, db, ds, call, fb, received, pair, heap>>

(***************************************************************************)
(* Bounds of the model.                                                    *)
(***************************************************************************)
MaxPages == 2      \* AttributePage elements in a configuration
MaxFilters == 2    \* FilterDescription elements in a configuration
MaxNames == 3      \* entries of the attribute list given to fetch
MaxDatasets == 2   \* rows of the dataset list of a database
MaxCopies == 2     \* times a forced re-population may fill a table

(***************************************************************************)
(* Python values.                                                          *)
(***************************************************************************)
None == [k |-> "None"]
PyBool(b) == [k |-> "bool", v |-> b]
PyStr(s) == [k |-> "str", v |-> s]
PyInt(n) == [k |-> "int", v |-> n]
PyList(xs) == [k |-> "list", v |-> xs]
PyTuple(xs) == [k |-> "tuple", v |-> xs]

IsNone(x) == x.k = "None"

\* str(x) for the scalar values of the model
str(x) ==
    CASE x.k = "str" -> x.v
      [] x.k = "int" -> ToString(x.v)
      [] x.k = "bool" -> (IF x.v THEN "True" ELSE "False")
      [] OTHER -> "None"

\* join without the separator
RECURSIVE join_unseparated(_)
join_unseparated(xs) ==
    IF Len(xs) = 0 THEN "" ELSE str(xs[1]) \o join_unseparated(Tail(xs))

\* ",".join([str(x) for x in xs])
RECURSIVE join(_)
join(xs) ==
    IF Len(xs) = 0 THEN ""
    ELSE IF Len(xs) = 1 THEN str(xs[1])
    ELSE str(xs[1]) \o "," \o join(Tail(xs))

\* dict.get(key, None); a dict is a function from names to Python values
get(d, key) == IF key \in DOMAIN d THEN d[key] ELSE None

(***************************************************************************)
(* Names and the string operations the matching code applies to them.      *)
(***************************************************************************)
lower(c) ==
    CASE c = "A" -> "a"
      [] c = "B" -> "b"
      [] c = "F" -> "f"
      [] c = "G" -> "g"
      [] c = "M" -> "m"
      [] c = "Z" -> "z"
      [] OTHER -> c

\* str.replace(old, new) for one-character old and new
replace(s, old, new) == [i \in 1..Len(s) |-> IF s[i] = old THEN new ELSE s[i]]

\* re.search(pat, s, IGNORECASE) for a pattern of literals and the wildcard "."
\* (pandas str.contains(pat, case=False, regex=True))
contains_regex(s, pat) ==
    \E i \in 0..(Len(s) - Len(pat)) :
        \A j \in 1..Len(pat) : pat[j] = "." \/ lower(pat[j]) = lower(s[i + j])

\* isin matching a value that contains one of the values, whatever the case
isin_substring(x, values) == \E i \in 1..Len(values) : contains_regex(x, values[i])

\* Series.isin(values): whole-value equality with one of the values
isin(x, values) == \E i \in 1..Len(values) : values[i] = x

(***************************************************************************)
(* DataSet: the tables built from the configuration (base.py 425-469).     *)
(* An attribute row keeps name, display_name and default; a filter row     *)
(* keeps name, display_name and type.  The description, operator and       *)
(* sub-option columns are copied from the XML and read by no code path     *)
(* modelled here.                                                          *)
(***************************************************************************)
Attribute(name, display_name, default) ==
    [name |-> name, display_name |-> display_name, default |-> default]

Filter(name, display_name, type) ==
    [name |-> name, display_name |-> display_name, type |-> type]

\* is_default without the test of the page
is_default_any_page(desc, page_index) == desc.default = "true"

\* is_default = (attrib.get("default", "") == "true") and (page_index == 0);
\* page_index counts from 0, the pages of the model from 1
is_default(desc, page_index) == desc.default = "true" /\ page_index = 0

\* the rows of one AttributePage
page_rows(page, page_index) ==
    [k \in 1..Len(page) |->
        Attribute(page[k].internalName, page[k].displayName,
                  is_default(page[k], page_index))]

\* the rows appended by one run of the loops of populate_attributes
RECURSIVE attribute_rows(_, _)
attribute_rows(pages, page_index) ==
    IF Len(pages) = 0 THEN <<>>
    ELSE page_rows(pages[1], page_index) \o attribute_rows(Tail(pages), page_index + 1)

\* the rows appended by one run of the loop of populate_filters
filter_rows(descs) ==
    [k \in 1..Len(descs) |->
        Filter(descs[k].internalName, descs[k].displayName, descs[k].type)]

\* _config_xml of a DataSet whose configuration was not fetched yet
NoConfig == [isNone |-> TRUE, pages |-> <<>>, filters |-> <<>>]

\* the config_xml property: fetch the configuration once, then keep it
config_xml(d, srv) ==
    IF d.config_xml.isNone
    THEN [isNone |-> FALSE, pages |-> srv.config.pages, filters |-> srv.config.filters]
    ELSE d.config_xml

\* the requests the config_xml property sends
config_requests(d) == IF d.config_xml.isNone THEN <<"configuration">> ELSE <<>>

\* populate_attributes(force): the DataSet afterwards
populate_attributes(d, srv, force) ==
    IF Len(d.attributes) > 0 /\ ~force THEN d
    ELSE [d EXCEPT !.config_xml = config_xml(d, srv),
                   !.attributes = d.attributes \o attribute_rows(config_xml(d, srv).pages, 0)]

\* populate_filters(force): the DataSet afterwards
populate_filters(d, srv, force) ==
    IF Len(d.filters) > 0 /\ ~force THEN d
    ELSE [d EXCEPT !.config_xml = config_xml(d, srv),
                   !.filters = d.filters \o filter_rows(config_xml(d, srv).filters)]

\* the attributes property: populate when the list is empty
attributes_property(d, srv) ==
    IF Len(d.attributes) = 0 THEN populate_attributes(d, srv, FALSE) ELSE d

\* the filters property: populate when the list is empty
filters_property(d, srv) ==
    IF Len(d.filters) = 0 THEN populate_filters(d, srv, FALSE) ELSE d

(***************************************************************************)
(* Errors: the exception a call ends with.  arg is what the message names. *)
(***************************************************************************)
NoError == [type |-> "none", msg |-> "", arg |-> <<>>]
Error(type, msg, arg) == [type |-> type, msg |-> msg, arg |-> arg]

(***************************************************************************)
(* DataSet.fetch: the query document and its submission (base.py 531-634). *)
(***************************************************************************)
\* the value the dictionary holds for a row: under the internal name, else
\* under the display name (base.py 540-542)
filter_value(filter_row, filter_query) ==
    IF IsNone(get(filter_query, filter_row.name))
    THEN get(filter_query, filter_row.display_name)
    ELSE get(filter_query, filter_row.name)

\* excluded_directive taking every value but the including ones as excluding
excluded_directive_else_excluded(value) ==
    IF (value.k = "bool" /\ value.v = TRUE)
       \/ (value.k = "str" /\ value.v \in {"included", "only"})
    THEN "0"
    ELSE "1"

\* the excluded attribute of a boolean filter, "" for an invalid value
\* (base.py 551-556)
excluded_directive(value) ==
    IF (value.k = "bool" /\ value.v = TRUE)
       \/ (value.k = "str" /\ value.v \in {"included", "only"})
    THEN "0"
    ELSE IF (value.k = "bool" /\ value.v = FALSE)
            \/ (value.k = "str" /\ value.v \in {"excluded"})
    THEN "1"
    ELSE ""

\* the Filter element of a row whose value is given (base.py 547-563)
filter_element(filter_row, value) ==
    IF filter_row.type = "boolean"
    THEN IF excluded_directive(value) = ""
         THEN [err |-> Error("ValueError", "Invalid value for boolean filter", <<value>>),
               el |-> <<>>]
         ELSE [err |-> NoError,
               el |-> [name |-> filter_row.name, excluded |-> excluded_directive(value)]]
    ELSE IF value.k \in {"list", "tuple"}
    THEN [err |-> NoError, el |-> [name |-> filter_row.name, value |-> join(value.v)]]
    ELSE [err |-> NoError, el |-> [name |-> filter_row.name, value |-> str(value)]]

\* add_filters without the check for a missing value
add_filters_unchecked(filter_row, filter_query) ==
    filter_element(filter_row, filter_value(filter_row, filter_query))

\* add_filters: the Filter element of one selected row, or the error raised
add_filters(filter_row, filter_query) ==
    IF IsNone(filter_value(filter_row, filter_query))
    THEN [err |-> Error("ValueError", "There is no value specified for key",
                        filter_row.name),
          el |-> <<>>]
    ELSE filter_element(filter_row, filter_value(filter_row, filter_query))

\* filter_df.apply(self.add_filters, axis=1, ...): the rows in table order; the
\* first error ends the loop
RECURSIVE apply_add_filters(_, _)
apply_add_filters(rows, filter_query) ==
    IF Len(rows) = 0 THEN [err |-> NoError, els |-> <<>>]
    ELSE LET first == add_filters(rows[1], filter_query)
         IN  IF first.err.type # "none" THEN [err |-> first.err, els |-> <<>>]
             ELSE LET rest == apply_add_filters(Tail(rows), filter_query)
                  IN  [err |-> rest.err,
                       els |-> IF rest.err.type # "none" THEN <<>>
                               ELSE <<first.el>> \o rest.els]

\* select_attributes matching the internal name only
select_attributes_by_name(table, attributes) ==
    IF IsNone(attributes)
    THEN SelectSeq(table, LAMBDA row : row.default)
    ELSE SelectSeq(table, LAMBDA row : isin(row.name, attributes.v))

\* the rows of the attribute table that fetch selects (base.py 613-617)
select_attributes(table, attributes) ==
    IF IsNone(attributes)
    THEN SelectSeq(table, LAMBDA row : row.default)
    ELSE SelectSeq(table, LAMBDA row : isin(row.name, attributes.v)
                                       \/ isin(row.display_name, attributes.v))

\* select_filters matching the internal name only
select_filters_by_name(table, filters) ==
    SelectSeq(table, LAMBDA row : row.name \in DOMAIN filters.v)

\* the rows of the filter table that fetch selects (base.py 623-624)
select_filters(table, filters) ==
    SelectSeq(table, LAMBDA row : row.name \in DOMAIN filters.v
                                  \/ row.display_name \in DOMAIN filters.v)

\* the Query element with its Dataset, Attribute and Filter children
Query(d, only_unique, attribute_rows_selected, filter_elements) ==
    [virtualSchemaName |-> d.virtual_schema,
     formatter |-> "CSV",
     header |-> "1",
     uniqueRows |-> IF only_unique THEN "1" ELSE "0",
     datasetConfigVersion |-> "0.6",
     dataset |-> d.name,
     interface |-> "default",
     attributes |-> [i \in 1..Len(attribute_rows_selected) |->
                        attribute_rows_selected[i].name],
     filters |-> filter_elements]

\* what a call leaves: the DataSet afterwards, the error raised, the query
\* submitted (a sequence of at most one), the requests sent, the value returned
Outcome(d, err, query, requests, result) ==
    [ds |-> d, err |-> err, query |-> query, requests |-> requests, result |-> result]

\* the answer of the service that the call has read ("": no query was sent)
response_read(out, response) == IF Len(out.query) = 1 THEN response ELSE ""

\* the test of the marker that sees only a body made of the marker alone
query_error_whole_body(text) == text = "Query ERROR"

\* 'Query ERROR' in r.text, over the bodies the service of the model sends
query_error(text) ==
    text \in {"Query ERROR", "Query ERROR: caught BioMart::Exception::Usage"}

\* DataSet.fetch(attributes, filters, only_unique) when the service answers the
\* query with response (delimited text, or a text holding the error marker)
fetch(d, srv, attributes, filters, only_unique, response) ==
    LET d1 == attributes_property(d, srv)
        req1 == IF Len(d.attributes) = 0 THEN config_requests(d) ELSE <<>>
        selected == select_attributes(d1.attributes, attributes)
        d2 == IF IsNone(filters) THEN d1 ELSE filters_property(d1, srv)
        req2 == IF ~IsNone(filters) /\ Len(d1.filters) = 0
                THEN config_requests(d1) ELSE <<>>
        added == IF IsNone(filters) THEN [err |-> NoError, els |-> <<>>]
                 ELSE apply_add_filters(select_filters(d2.filters, filters), filters.v)
        query == Query(d, only_unique, selected, added.els)
    IN  IF Len(d1.attributes) = 0
        \* pd.DataFrame([]) has no column: self.attributes.default / .name
        THEN Outcome(d1, Error("AttributeError", "DataFrame has no attribute", <<>>),
                     <<>>, req1, "")
        ELSE IF ~IsNone(filters) /\ Len(d2.filters) = 0
        \* pd.DataFrame([]).pop("options")
        THEN Outcome(d2, Error("KeyError", "options", <<>>), <<>>, req1 \o req2, "")
        ELSE IF added.err.type # "none"
        THEN Outcome(d2, added.err, <<>>, req1 \o req2, "")
        ELSE IF query_error(response)
        THEN Outcome(d2, Error("ValueError", response, <<>>), <<query>>,
                     req1 \o req2 \o <<"query">>, "")
        ELSE Outcome(d2, NoError, <<query>>, req1 \o req2 \o <<"query">>, "table")

\* DataSet(name=dataset_name): the fields after construction (base.py 378-386);
\* __post_init__ assigns a local variable, so the object has no _homology
DataSet(name) ==
    [exists |-> TRUE, name |-> name, virtual_schema |-> "default",
     config_xml |-> NoConfig, attributes |-> <<>>, filters |-> <<>>]

\* the homology property reads self._homology, which no code has set
homology_property(d) ==
    Error("AttributeError", "'DataSet' object has no attribute '_homology'", <<>>)

\* extract_homology_attributes(species, query) (base.py 636-676): the first
\* statement reads the homology property, and nothing after it is reached
extract_homology_attributes(d, species, query) ==
    Outcome(d, homology_property(d), <<>>, <<>>, <<>>)

\* fetch_data(dataset_name, attributes, filters, hom_species, hom_query) of
\* funcs.py, on the DataSet it builds for dataset_name; hom tells whether both
\* hom_species and hom_query are given
fetch_data(dataset_name, srv, attributes, filters, hom, only_unique, response) ==
    LET d0 == DataSet(dataset_name)
        needDefault == IsNone(attributes)
        d1 == IF needDefault THEN attributes_property(d0, srv) ELSE d0
        req1 == IF needDefault THEN config_requests(d0) ELSE <<>>
        defaults == select_attributes(d1.attributes, None)
        names == IF needDefault
                 THEN PyList([i \in 1..Len(defaults) |-> defaults[i].name])
                 ELSE attributes
        rest == fetch(d1, srv, names, filters, only_unique, response)
    IN  IF needDefault /\ Len(d1.attributes) = 0
        THEN Outcome(d1, Error("AttributeError", "DataFrame has no attribute", <<>>),
                     <<>>, req1, "")
        ELSE IF hom
        THEN Outcome(d1, homology_property(d1), <<>>, req1, "")
        ELSE Outcome(rest.ds, rest.err, rest.query, req1 \o rest.requests, rest.result)

(***************************************************************************)
(* DataBase: the dataset list and the species lookup (base.py 205-257).    *)
(***************************************************************************)
\* DataBase(name=name): the fields after construction
DataBase(name) == [exists |-> TRUE, name |-> name, datasets |-> <<>>]

\* the datasets property: ask the service while the cached list is empty and
\* the database has a name
datasets_property(b, srv) ==
    IF Len(b.datasets) = 0 /\ Len(b.name) > 0
    THEN [b EXCEPT !.datasets = srv.datasets]
    ELSE b

\* the requests the datasets property sends
datasets_requests(b) ==
    IF Len(b.datasets) = 0 /\ Len(b.name) > 0 THEN <<"datasets">> ELSE <<>>

\* the rows whose display name or internal name matches specie (base.py 249-250)
match_both(table, specie) ==
    SelectSeq(table, LAMBDA row : contains_regex(row.display_name, specie)
                                  \/ contains_regex(row.name, specie))

\* the rows whose display name matches specie (base.py 253-254)
match_display(table, specie) ==
    SelectSeq(table, LAMBDA row : contains_regex(row.display_name, specie))

\* find_species without the second match
find_species_no_retry(b, srv, specie) ==
    LET b1 == datasets_property(b, srv)
        first == match_both(b1.datasets, specie)
    IN  IF Len(first) = 0
        THEN [db |-> b1,
              err |-> Error("ValueError", "Database does not contain", specie),
              requests |-> datasets_requests(b), result |-> <<>>]
        ELSE [db |-> b1, err |-> NoError,
              requests |-> datasets_requests(b), result |-> first]

\* find_species(specie): the rows returned or the error raised
find_species(b, srv, specie) ==
    LET b1 == datasets_property(b, srv)
        table == b1.datasets
        first == match_both(table, specie)
        specie2 == IF Len(first) = 0 THEN replace(specie, "_", " ") ELSE specie
        result == IF Len(first) = 0 THEN match_display(table, specie2) ELSE first
    IN  IF Len(table) = 0
        THEN [db |-> b1,
              err |-> IF Len(b1.name) = 0
                      THEN Error("ValueError", "No name for a given database", <<>>)
                      ELSE Error("ValueError", "No datasets found for name", <<>>),
              requests |-> datasets_requests(b), result |-> <<>>]
        ELSE IF Len(result) = 0
        THEN [db |-> b1,
              err |-> Error("ValueError", "Database does not contain", specie2),
              requests |-> datasets_requests(b), result |-> <<>>]
        ELSE [db |-> b1, err |-> NoError,
              requests |-> datasets_requests(b), result |-> result]

(***************************************************************************)
(* The inputs of the model: what the service holds and what the caller     *)
(* passes.                                                                 *)
(***************************************************************************)
SeqsUpTo(S, n) == UNION {[1..k -> S] : k \in 0..n}

AttributeDescription(internalName, displayName, default) ==
    [internalName |-> internalName, displayName |-> displayName, default |-> default]

FilterDescription(internalName, displayName, type) ==
    [internalName |-> internalName, displayName |-> displayName, type |-> type]

D1 == AttributeDescription(<<"a">>, <<"A">>, "true")
D2 == AttributeDescription(<<"b">>, <<"a">>, "true")
D3 == AttributeDescription(<<"a", "b">>, <<"A">>, "")

\* the AttributePage elements a configuration is made of
PageSet == {<<>>, <<D1>>, <<D2, D3>>}

F1 == FilterDescription(<<"f">>, <<"F">>, "boolean")
F2 == FilterDescription(<<"f">>, <<"F">>, "text")
F3 == FilterDescription(<<"g">>, <<"F">>, "list")
FilterDescriptions == {F1, F2, F3}

\* the configurations of the dataset: the attribute pages vary over one filter
\* list, the filter list varies over one page list
Configurations ==
    {[pages |-> p, filters |-> <<F1>>] : p \in SeqsUpTo(PageSet, MaxPages)}
    \cup {[pages |-> <<<<D1>>>>, filters |-> f] : f \in SeqsUpTo(FilterDescriptions, MaxFilters)}

\* the names a caller puts in an attribute list
UserAttributeNames == {<<"a">>, <<"A">>, <<"z">>}

\* the attributes argument of fetch: None, or a list of at most MaxNames names
\* without repetition, or one name twice
AttributeArgs ==
    {None, PyList(<<<<"a">>, <<"a">>>>)}
    \cup {PyList(xs) : xs \in {ys \in SeqsUpTo(UserAttributeNames, MaxNames) :
                                  \A i, j \in 1..Len(ys) : ys[i] = ys[j] => i = j}}

\* the values a caller gives a filter
FilterValues ==
    {None, PyBool(TRUE), PyBool(FALSE), PyStr("included"), PyStr("only"),
     PyStr("excluded"), PyStr("yes"), PyInt(1), PyInt(0),
     PyList(<<PyStr("1"), PyInt(2)>>), PyTuple(<<PyStr("x"), PyStr("y")>>)}

\* the values used in dictionaries of two keys
PairValues == {None, PyBool(TRUE), PyList(<<PyStr("1"), PyInt(2)>>)}

PyDict(d) == [k |-> "dict", v |-> d]

\* the filters argument of fetch: no dictionary, the empty one, every
\* dictionary of one key and the dictionaries of two keys over PairValues
FilterArgs ==
    {None, PyDict(<<>>)}
    \cup {PyDict(key :> val) : key \in {<<"f">>, <<"F">>, <<"z">>}, val \in FilterValues}
    \cup {PyDict((<<"f">> :> v1) @@ (key :> v2)) :
            key \in {<<"F">>, <<"z">>}, v1 \in PairValues, v2 \in PairValues}

\* the argument pairs of fetch: every attribute list without filters, every
\* filter dictionary with the default attributes, and one list with the
\* dictionaries of the key "f" over PairValues
FetchArgs ==
    {<<a, None>> : a \in AttributeArgs}
    \cup {<<None, f>> : f \in FilterArgs}
    \cup {<<PyList(<<<<"a">>, <<"z">>>>), PyDict(<<"f">> :> val)>> : val \in PairValues}

\* how the service answers a query
QueryResponses ==
    {"table", "Query ERROR", "Query ERROR: caught BioMart::Exception::Usage"}

S1 == [name |-> <<"m">>, display_name |-> <<"A", " ", "b">>]
S2 == [name |-> <<"a", "_", "b">>, display_name |-> <<"M">>]
S3 == [name |-> <<"z">>, display_name |-> <<"Z">>]
S4 == [name |-> <<"a", " ", "b">>, display_name |-> <<"Z">>]

\* the dataset lists of a database: the service lists at least one dataset
DatasetTables == SeqsUpTo({S1, S2, S3, S4}, MaxDatasets) \ {<<>>}

\* the species a caller looks for
SpeciesArgs ==
    {<<"a", "_", "b">>, <<"A", " ", "B">>, <<"b">>, <<"z", "_">>, <<"a", ".", "b">>}

\* the species and the qualifiers given to extract_homology_attributes
HomologySpecies == {<<"human">>, <<"human", "mmusculus", "zebrafish">>}
HomologyQueries == {<<"ensembl_gene", "perc_id">>}

NoFrontBase == [exists |-> FALSE]
NoneReceived == [registry |-> 0, datasets |-> 0, configuration |-> 0, query |-> 0]

NoDataBase == [exists |-> FALSE, name |-> <<>>, datasets |-> <<>>]
NoDataSet ==
    [exists |-> FALSE, name |-> <<>>, virtual_schema |-> "default",
     config_xml |-> NoConfig, attributes |-> <<>>, filters |-> <<>>]

(***************************************************************************)
(* The state machine.  A session builds one object, a DataSet or a         *)
(* DataBase, and calls it; call holds the call that has just ended until   *)
(* the caller takes its outcome.                                           *)
(***************************************************************************)
Idle == [op |-> "none", args |-> <<>>, err |-> NoError, query |-> <<>>,
         requests |-> <<>>, response |-> "", result |-> ""]

Call(op, args, err, query, requests, response, result) ==
    [op |-> op, args |-> args, err |-> err, query |-> query,
     requests |-> requests, response |-> response, result |-> result]

Init ==
    /\ call = Idle
    /\ pair = <<>> /\ heap = <<>>
    /\ fb = NoFrontBase
    /\ received = NoneReceived
    /\ \/ /\ server \in {[config |-> c, datasets |-> <<S1>>] : c \in Configurations}
          /\ ds = DataSet(<<"m">>)
          /\ db = NoDataBase
       \/ /\ server \in {[config |-> [pages |-> <<<<D1>>>>, filters |-> <<F1>>],
                          datasets |-> t] : t \in DatasetTables}
          /\ ds = NoDataSet
          /\ db \in {DataBase(<<"M">>)} \cup
                    (IF server.datasets = <<S1>> THEN {DataBase(<<>>)} ELSE {})

\* ds.config_xml
AccessConfigXml ==
    /\ call.op = "none" /\ ds.exists
    /\ ds' = [ds EXCEPT !.config_xml = config_xml(ds, server)]
    /\ call' = Call("config_xml", <<>>, NoError, <<>>, config_requests(ds), "", "xml")
    /\ UNCHANGED <<server, db, fb, received, pair, heap>>

\* ds.populate_attributes(force), also reached through ds.attributes
PopulateAttributes(force) ==
    /\ call.op = "none" /\ ds.exists
    /\ force => Len(ds.attributes)
                  < MaxCopies * Len(attribute_rows(config_xml(ds, server).pages, 0))
    /\ ds' = populate_attributes(ds, server, force)
    /\ call' = Call("populate_attributes", <<force>>, NoError, <<>>,
                    IF Len(ds.attributes) > 0 /\ ~force THEN <<>> ELSE config_requests(ds),
                    "", "list")
    /\ UNCHANGED <<server, db, fb, received, pair, heap>>

\* ds.populate_filters(force)
PopulateFilters(force) ==
    /\ call.op = "none" /\ ds.exists
    /\ force => Len(ds.filters)
                  < MaxCopies * Len(filter_rows(config_xml(ds, server).filters))
    /\ ds' = populate_filters(ds, server, force)
    /\ call' = Call("populate_filters", <<force>>, NoError, <<>>,
                    IF Len(ds.filters) > 0 /\ ~force THEN <<>> ELSE config_requests(ds),
                    "", "list")
    /\ UNCHANGED <<server, db, fb, received, pair, heap>>

\* ds.fetch(attributes, filters, only_unique)
Fetch(attributes, filters, only_unique, response) ==
    /\ call.op = "none" /\ ds.exists
    /\ LET out == fetch(ds, server, attributes, filters, only_unique, response)
       IN  /\ ds' = out.ds
           /\ call' = Call("fetch", <<attributes, filters, only_unique>>, out.err,
                           out.query, out.requests, response_read(out, response),
                           out.result)
    /\ UNCHANGED <<server, db, fb, received, pair, heap>>

\* fetch_data(dataset_name=ds.name, attributes=..., filters=..., ...): the call
\* builds and drops a DataSet of its own
FetchData(attributes, filters, hom, only_unique, response) ==
    /\ call.op = "none" /\ ds.exists
    /\ LET out == fetch_data(ds.name, server, attributes, filters, hom,
                             only_unique, response)
       IN  call' = Call("fetch_data", <<attributes, filters, only_unique, hom>>,
                        out.err, out.query, out.requests,
                        response_read(out, response), out.result)
    /\ UNCHANGED <<server, db, ds, fb, received, pair, heap>>

\* ds.extract_homology_attributes(species, query)
ExtractHomologyAttributes(species, query) ==
    /\ call.op = "none" /\ ds.exists
    /\ LET out == extract_homology_attributes(ds, species, query)
       IN  /\ ds' = out.ds
           /\ call' = Call("extract_homology_attributes", <<species, query>>, out.err,
                           out.query, out.requests, "", out.result)
    /\ UNCHANGED <<server, db, fb, received, pair, heap>>

\* db.datasets
AccessDatasets ==
    /\ call.op = "none" /\ db.exists
    /\ db' = datasets_property(db, server)
    /\ call' = Call("datasets", <<>>, NoError, <<>>, datasets_requests(db),
                    "", datasets_property(db, server).datasets)
    /\ UNCHANGED <<server, ds, fb, received, pair, heap>>

\* db.find_species(specie), also reached through db.print_species(specie)
FindSpecies(specie) ==
    /\ call.op = "none" /\ db.exists
    /\ LET out == find_species(db, server, specie)
       IN  /\ db' = out.db
           /\ call' = Call("find_species", <<specie>>, out.err, <<>>,
                           out.requests, "", out.result)
    /\ UNCHANGED <<server, ds, fb, received, pair, heap>>

\* the caller takes the outcome of the call
Return ==
    /\ call.op # "none"
    /\ call' = Idle
    /\ UNCHANGED <<server, db, ds, fb, received, pair, heap>>

Next ==
    \/ AccessConfigXml
    \/ \E force \in BOOLEAN : PopulateAttributes(force)
    \/ \E force \in BOOLEAN : PopulateFilters(force)
    \/ \E args \in FetchArgs, response \in QueryResponses :
          Fetch(args[1], args[2], TRUE, response)
    \/ \E attributes \in {None, PyList(<<<<"a">>>>)}, hom \in BOOLEAN,
          response \in QueryResponses :
          FetchData(attributes, None, hom, TRUE, response)
    \/ \E species \in HomologySpecies, query \in HomologyQueries :
          ExtractHomologyAttributes(species, query)
    \/ AccessDatasets
    \/ \E specie \in SpeciesArgs : FindSpecies(specie)
    \/ Return

Spec == Init /\ [][Next]_vars

(***************************************************************************)
(* The connection of an object (base.py 170-191) and the service behind    *)
(* it.  Keyword arguments are a dict from parameter names to values.       *)
(***************************************************************************)
DefaultHost == "http://www.ensembl.org"
DefaultPath == "/biomart/martservice"
DefaultPort == 80
DefaultVirtualSchema == "default"

\* kwargs.get(key, default)
kwargs_get(kwargs, key, default) == IF key \in DOMAIN kwargs THEN kwargs[key] ELSE default

\* the fields of Base after construction with the keyword arguments kwargs
Base(kwargs) ==
    [host |-> kwargs_get(kwargs, "host", DefaultHost),
     path |-> kwargs_get(kwargs, "path", DefaultPath),
     port |-> kwargs_get(kwargs, "port", DefaultPort),
     virtual_schema |-> kwargs_get(kwargs, "virtual_schema", DefaultVirtualSchema)]

\* the url property: f"{self.host}:{self.port}{self.path}"
url(b) == b.host \o ":" \o ToString(b.port) \o b.path

\* reset_connection_params(**kwargs): the object afterwards
reset_connection_params(b, kwargs) ==
    [b EXCEPT !.host = kwargs_get(kwargs, "host", b.host),
              !.path = kwargs_get(kwargs, "path", b.path),
              !.port = kwargs_get(kwargs, "port", b.port),
              !.virtual_schema = kwargs_get(kwargs, "virtual_schema", b.virtual_schema)]

\* the service answers at its default address and at a mirror
MirrorHost == "http://mirror.ensembl.org"
ServiceHosts == {DefaultHost, MirrorHost}

\* requests.get(self.url, ...) followed by r.raise_for_status(): no host or no
\* open port gives a ConnectionError, a path the service does not know gives
\* a 404 status and so an HTTPError
get_error(b) ==
    IF b.host \notin ServiceHosts \/ b.port # DefaultPort
    THEN Error("ConnectionError", "", <<>>)
    ELSE IF b.path # DefaultPath
    THEN Error("HTTPError", "404", <<>>)
    ELSE NoError

\* a request as the transport sees it: its type, where it goes and whether
\* the service answers it
Request(b, type) == [type |-> type, url |-> url(b), ok |-> get_error(b).type = "none"]

\* the requests among requests that the service has answered, by type
Answered(requests, type) ==
    Len(SelectSeq(requests, LAMBDA r : r.type = type /\ r.ok))

\* the element of a set of one element; {e(x) : x \in {v}} computes v once
\* for all its uses in e
TheOnly(S) == CHOOSE x \in S : TRUE

\* what a call on an object leaves: the object afterwards, the error raised, the
\* requests sent, the value returned
Result(obj, err, requests, result) ==
    [obj |-> obj, err |-> err, requests |-> requests, result |-> result]

(***************************************************************************)
(* FrontBase (base.py 270-315).                                            *)
(***************************************************************************)
\* FrontBase(**kwargs): the fields after construction
FrontBase(kwargs) == Base(kwargs) @@ [exists |-> TRUE, databases |-> <<>>]

\* the databases property: ask the service for the registry while the cached
\* list is empty; one DataBase per MartURLLocation of the answer
FrontBase_databases(f, srv) ==
    IF Len(f.databases) = 0
    THEN IF get_error(f).type # "none"
         THEN Result(f, get_error(f), <<Request(f, "registry")>>, <<>>)
         ELSE Result([f EXCEPT !.databases = srv.registry], NoError,
                     <<Request(f, "registry")>>, srv.registry)
    ELSE Result(f, NoError, <<>>, f.databases)

\* print_databases(): the rows of self.databases are printed, then
\* self.list_databases(), which is self.databases again, is returned
print_databases(f, srv) ==
    LET first == FrontBase_databases(f, srv)
        second == FrontBase_databases(first.obj, srv)
    IN  IF first.err.type # "none" THEN first
        ELSE Result(second.obj, second.err, first.requests \o second.requests,
                    second.result)

\* list_databases(**url_kwargs) of funcs.py
list_databases(kwargs, srv) == print_databases(FrontBase(kwargs), srv)

(***************************************************************************)
(* DataBase and DataSet behind a connection that may fail.                 *)
(***************************************************************************)
\* DataBase(name=name, **kwargs): the fields after construction
DataBase_connected(name, kwargs) == Base(kwargs) @@ DataBase(name)

\* pd.read_csv(StringIO(response.text), sep='\t', header=None)[[1, 2]]: a body
\* without a line has no columns to parse
read_csv_error(rows) ==
    IF Len(rows) = 0
    THEN Error("EmptyDataError", "No columns to parse from file", <<>>)
    ELSE NoError

\* the datasets property (base.py 212-235): without a name no request is sent
DataBase_datasets(b, srv) ==
    IF Len(b.datasets) = 0 /\ Len(b.name) > 0
    THEN IF get_error(b).type # "none"
         THEN Result(b, get_error(b), <<Request(b, "datasets")>>, <<>>)
         ELSE IF read_csv_error(srv.datasets).type # "none"
         THEN Result(b, read_csv_error(srv.datasets), <<Request(b, "datasets")>>, <<>>)
         ELSE Result(datasets_property(b, srv), NoError, <<Request(b, "datasets")>>,
                     srv.datasets)
    ELSE Result(b, NoError, <<>>, b.datasets)

\* find_species(specie) (base.py 237-257) on the datasets property above
DataBase_find_species(b, srv, specie) ==
    LET got == DataBase_datasets(b, srv)
        out == find_species(got.obj, srv, specie)
    IN  IF got.err.type # "none" THEN got
        ELSE Result(out.db, out.err, got.requests, out.result)

\* DataSet(name=name, **kwargs): the fields after construction
DataSet_connected(name, kwargs) == Base(kwargs) @@ DataSet(name)

\* the config_xml property that keeps whatever the service answers
DataSet_config_xml_unmarked(d, srv) ==
    IF ~d.config_xml.isNone THEN Result(d, NoError, <<>>, "xml")
    ELSE IF get_error(d).type # "none"
    THEN Result(d, get_error(d), <<Request(d, "configuration")>>, "")
    ELSE Result([d EXCEPT !.config_xml = config_xml(d, srv)], NoError,
                <<Request(d, "configuration")>>, "xml")

\* the config_xml property (base.py 388-400): the request may fail, and the
\* answer may hold the marker of a configuration that cannot be retrieved
DataSet_config_xml(d, srv) ==
    IF ~d.config_xml.isNone THEN Result(d, NoError, <<>>, "xml")
    ELSE IF get_error(d).type # "none"
    THEN Result(d, get_error(d), <<Request(d, "configuration")>>, "")
    ELSE IF srv.problem
    THEN Result(d, Error("KeyError", "Problem retrieving configuration", <<>>),
                <<Request(d, "configuration")>>, "")
    ELSE Result([d EXCEPT !.config_xml = config_xml(d, srv)], NoError,
                <<Request(d, "configuration")>>, "xml")

\* the attributes property (base.py 402-407)
DataSet_attributes(d, srv) ==
    LET c == DataSet_config_xml(d, srv)
    IN  IF Len(d.attributes) > 0 THEN Result(d, NoError, <<>>, d.attributes)
        ELSE IF c.err.type # "none" THEN c
        ELSE Result(attributes_property(c.obj, srv), NoError, c.requests,
                    attributes_property(c.obj, srv).attributes)

\* the filters property (base.py 409-416): an empty list gives a frame without
\* the column "options"
DataSet_filters(d, srv) ==
    LET c == DataSet_config_xml(d, srv)
        d1 == filters_property(c.obj, srv)
    IN  IF Len(d.filters) > 0 THEN Result(d, NoError, <<>>, d.filters)
        ELSE IF c.err.type # "none" THEN c
        ELSE IF Len(d1.filters) = 0
        THEN Result(d1, Error("KeyError", "options", <<>>), c.requests, "")
        ELSE Result(d1, NoError, c.requests, d1.filters)

\* fetch(attributes, filters, only_unique) (base.py 565-634): the configuration
\* request and the query request may fail; once the attributes are read the
\* configuration is kept, so the filters property sends nothing
DataSet_fetch(d, srv, attributes, filters, only_unique) ==
    TheOnly({
        IF a.err.type # "none" THEN Result(a.obj, a.err, a.requests, "")
        ELSE TheOnly({
                 IF Len(out.query) = 0 THEN Result(out.ds, out.err, a.requests, "")
                 ELSE IF get_error(d).type # "none"
                 THEN Result(out.ds, get_error(d),
                             a.requests \o <<Request(d, "query")>>, "")
                 ELSE Result(out.ds, out.err, a.requests \o <<Request(d, "query")>>,
                             out.result) :
                 out \in {fetch(a.obj, srv, attributes, filters, only_unique,
                                srv.response)}}) :
        a \in {DataSet_attributes(d, srv)}})

(***************************************************************************)
(* The functions of funcs.py that find a dataset before they read it.      *)
(***************************************************************************)
upper(c) ==
    CASE c = "a" -> "A"
      [] c = "b" -> "B"
      [] c = "f" -> "F"
      [] c = "g" -> "G"
      [] c = "m" -> "M"
      [] c = "z" -> "Z"
      [] OTHER -> c

\* database_name.replace(" ", "_").upper()
alt_name(database_name) ==
    [i \in 1..Len(database_name) |-> upper(replace(database_name, " ", "_")[i])]

\* the rows of the registry whose name or display name is database_name or its
\* alt_name (funcs.py 72-73)
match_database(databases, database_name) ==
    SelectSeq(databases,
              LAMBDA row : isin(row.name, <<alt_name(database_name), database_name>>)
                           \/ isin(row.display_name,
                                   <<alt_name(database_name), database_name>>))

\* dict(zip(species_df["display_name"], species_df["name"])): a later row takes
\* the place of an earlier one with the same display name
zip_dict(rows) ==
    [key \in {rows[i].display_name : i \in 1..Len(rows)} |->
        rows[CHOOSE i \in 1..Len(rows) :
                /\ rows[i].display_name = key
                /\ \A j \in 1..Len(rows) : rows[j].display_name = key => j <= i].name]

\* find_dataset(database_name, species, **url_kwargs); the DataBase is built
\* from the name of the first row matched, and from nothing else
find_dataset(database_name, species, kwargs, srv) ==
    TheOnly({
        IF front.err.type # "none" THEN Result(front.obj, front.err, front.requests, <<>>)
        \* pd.DataFrame([])["name"]
        ELSE IF Len(front.result) = 0
        THEN Result(front.obj, Error("KeyError", "name", <<>>), front.requests, <<>>)
        ELSE IF Len(match_database(front.result, database_name)) = 0
        THEN Result(front.obj,
                    Error("ValueError", "No database found for query", database_name),
                    front.requests, <<>>)
        ELSE TheOnly({
                 IF found.err.type # "none"
                 THEN Result(found.obj, found.err, front.requests \o found.requests, <<>>)
                 ELSE Result(found.obj, NoError, front.requests \o found.requests,
                             zip_dict(found.result)) :
                 found \in {DataBase_find_species(
                               DataBase_connected(
                                   match_database(front.result, database_name)[1].name,
                                   <<>>),
                               srv, species)}}) :
        front \in {FrontBase_databases(FrontBase(kwargs), srv)}})

\* _fetch_dataset(dataset_name, database_name, species_name, **url_kwargs): the
\* DataSet it returns, or the error it raises
fetch_dataset(dataset_name, database_name, species_name, kwargs, srv) ==
    IF ~IsNone(dataset_name)
    THEN Result(DataSet_connected(dataset_name.v, kwargs), NoError, <<>>, <<>>)
    ELSE IF ~IsNone(database_name) /\ ~IsNone(species_name)
    THEN TheOnly({
             IF datadict.err.type # "none"
             THEN Result(NoDataSet, datadict.err, datadict.requests, <<>>)
             ELSE IF Cardinality(DOMAIN datadict.result) > 1
             THEN Result(NoDataSet,
                         Error("ValueError",
                               "Too many datasets for given query, narrow the query", <<>>),
                         datadict.requests, <<>>)
             \* list(datadict.values())[0] of a dict of one key
             ELSE Result(DataSet_connected(
                             datadict.result[TheOnly(DOMAIN datadict.result)], kwargs),
                         NoError, datadict.requests, <<>>) :
             datadict \in {find_dataset(database_name.v, species_name.v, kwargs, srv)}})
    ELSE Result(NoDataSet,
                Error("ValueError",
                      "Pass either valid dataset name, or a combination of valid database name with a valid species name",
                      <<>>),
                <<>>, <<>>)

\* get_attributes(dataset_name, database_name, species_name, **url_kwargs)
get_attributes(dataset_name, database_name, species_name, kwargs, srv) ==
    TheOnly({
        IF dataset.err.type # "none" THEN dataset
        ELSE TheOnly({Result(out.obj, out.err, dataset.requests \o out.requests,
                             out.result) :
                      out \in {DataSet_attributes(dataset.obj, srv)}}) :
        dataset \in {fetch_dataset(dataset_name, database_name, species_name,
                                   kwargs, srv)}})

\* get_filters(dataset_name, database_name, species_name, **url_kwargs)
get_filters(dataset_name, database_name, species_name, kwargs, srv) ==
    TheOnly({
        IF dataset.err.type # "none" THEN dataset
        ELSE TheOnly({Result(out.obj, out.err, dataset.requests \o out.requests,
                             out.result) :
                      out \in {DataSet_filters(dataset.obj, srv)}}) :
        dataset \in {fetch_dataset(dataset_name, database_name, species_name,
                                   kwargs, srv)}})

\* the names of the default attributes:
\* dataset.attributes[dataset.attributes.default]["name"].tolist()
default_names(table) ==
    PyList([i \in 1..Len(select_attributes(table, None)) |->
               select_attributes(table, None)[i].name])

\* fetch_data(dataset_name, database_name, species_name, **url_kwargs) with no
\* attribute list, no filters and no homology arguments (funcs.py 165-172)
fetch_data_defaults(dataset_name, database_name, species_name, kwargs, srv) ==
    TheOnly({
        IF dataset.err.type # "none" THEN dataset
        ELSE TheOnly({
                 IF a.err.type # "none"
                 THEN Result(a.obj, a.err, dataset.requests \o a.requests, "")
                 ELSE IF Len(a.obj.attributes) = 0
                 THEN Result(a.obj,
                             Error("AttributeError", "DataFrame has no attribute", <<>>),
                             dataset.requests \o a.requests, "")
                 ELSE TheOnly({Result(out.obj, out.err,
                                      dataset.requests \o a.requests \o out.requests,
                                      out.result) :
                               out \in {DataSet_fetch(a.obj, srv,
                                                      default_names(a.obj.attributes),
                                                      None, TRUE)}}) :
                 a \in {DataSet_attributes(dataset.obj, srv)}}) :
        dataset \in {fetch_dataset(dataset_name, database_name, species_name,
                                   kwargs, srv)}})

(***************************************************************************)
(* The state machine of a session behind a connection that may fail.  The  *)
(* session either builds one object (a FrontBase, a DataBase or a DataSet) *)
(* and calls its methods, or calls the functions of funcs.py, which build  *)
(* and drop objects of their own.  received counts the requests that the   *)
(* service has answered to the object of the session.                      *)
(***************************************************************************)
MaxRequests == 3   \* requests of one type the service answers in a session

R1 == [name |-> <<"M", "_", "B">>, display_name |-> <<"A", " ", "b">>]
R2 == [name |-> <<"z">>, display_name |-> <<"Z">>]

\* the MartURLLocation elements of the registry
Registries == {<<>>, <<R1>>, <<R1, R2>>}

\* the lines of the answer to a datasets request
DatasetBodies == {<<>>, <<S3>>, <<S3, S4>>, <<S1, S3>>}

\* a service with databases, one dataset, one attribute and one filter
BaseService ==
    [registry |-> <<R1, R2>>, datasets |-> <<S3>>,
     config |-> [pages |-> <<<<D1>>>>, filters |-> <<F1>>],
     problem |-> FALSE, response |-> "table"]

\* what the service holds: one part varies while the others are as in BaseService
Services ==
    {[BaseService EXCEPT !.registry = r] : r \in Registries}
    \cup {[BaseService EXCEPT !.datasets = t] : t \in DatasetBodies}
    \cup {[BaseService EXCEPT !.config = c] :
            c \in {[pages |-> <<>>, filters |-> <<F1>>],
                   [pages |-> <<<<D1>>>>, filters |-> <<>>]}}
    \cup {[BaseService EXCEPT !.problem = TRUE],
          [BaseService EXCEPT !.response = "Query ERROR"]}

\* the keyword arguments that override the connection
Overrides ==
    {<<>>, "host" :> MirrorHost, "host" :> "http://www.nosembl.org",
     "path" :> "/criomart/martservice", "port" :> 666}

\* the keyword arguments given to reset_connection_params
ResetArgs ==
    {"host" :> "http://www.nosembl.org", "host" :> DefaultHost,
     "path" :> "/criomart/martservice"}

\* the database names a caller looks for
DatabaseArgs ==
    {<<"m", " ", "b">>, <<"M", "_", "B">>, <<"a", " ", "b">>, <<"A", " ", "b">>,
     <<"z">>, <<"g">>}

\* the species a caller looks for in the datasets of a database
SpeciesNames == {<<"z">>, <<"b">>, <<".">>}

\* the (dataset_name, database_name, species_name) a caller passes
DatasetArgs ==
    {<<PyStr(<<"z">>), None, None>>, <<None, None, None>>,
     <<None, PyStr(<<"z">>), None>>, <<None, None, PyStr(<<"z">>)>>}
    \cup {<<None, PyStr(database_name), PyStr(species_name)>> :
            database_name \in DatabaseArgs, species_name \in SpeciesNames}

InitService ==
    /\ call = Idle
    /\ pair = <<>> /\ heap = <<>>
    /\ received = NoneReceived
    /\ server \in Services
    /\ \/ /\ fb \in {FrontBase(kwargs) : kwargs \in Overrides}
          /\ db = NoDataBase /\ ds = NoDataSet
       \/ /\ db \in {DataBase_connected(<<"M", "_", "B">>, kwargs) : kwargs \in Overrides}
                     \cup {DataBase_connected(<<>>, <<>>)}
          /\ fb = NoFrontBase /\ ds = NoDataSet
       \/ /\ ds \in {DataSet_connected(<<"z">>, kwargs) : kwargs \in Overrides}
          /\ fb = NoFrontBase /\ db = NoDataBase
       \/ fb = NoFrontBase /\ db = NoDataBase /\ ds = NoDataSet

\* the count of the requests answered, after requests
Receive(requests) ==
    [type \in DOMAIN received |-> received[type] + Answered(requests, type)]

\* a method of the object of the session ends with out
MethodEnds(op, args, out) ==
    /\ \A type \in DOMAIN received :
          received[type] + Answered(out.requests, type) <= MaxRequests
    /\ call' = Call(op, args, out.err, <<>>, out.requests, "", out.result)
    /\ received' = Receive(out.requests)
    /\ UNCHANGED <<server, pair, heap>>

\* a function of funcs.py ends with out
FunctionEnds(op, args, out) ==
    /\ call' = Call(op, args, out.err, <<>>, out.requests, "", out.result)
    /\ UNCHANGED <<server, fb, db, ds, received, pair, heap>>

NoObject == ~fb.exists /\ ~db.exists /\ ~ds.exists

\* fb.databases, also reached through fb.list_databases()
ReadDatabases ==
    /\ call.op = "none" /\ fb.exists
    /\ \E out \in {FrontBase_databases(fb, server)} :
          /\ fb' = out.obj
          /\ MethodEnds("databases", <<>>, out)
    /\ UNCHANGED <<db, ds>>

\* fb.print_databases()
PrintDatabases ==
    /\ call.op = "none" /\ fb.exists
    /\ \E out \in {print_databases(fb, server)} :
          /\ fb' = out.obj
          /\ MethodEnds("print_databases", <<>>, out)
    /\ UNCHANGED <<db, ds>>

\* db.datasets
ReadDatasets ==
    /\ call.op = "none" /\ db.exists
    /\ \E out \in {DataBase_datasets(db, server)} :
          /\ db' = out.obj
          /\ MethodEnds("datasets", <<>>, out)
    /\ UNCHANGED <<fb, ds>>

\* db.find_species(specie), also reached through db.print_species(specie)
LookUpSpecies(specie) ==
    /\ call.op = "none" /\ db.exists
    /\ \E out \in {DataBase_find_species(db, server, specie)} :
          /\ db' = out.obj
          /\ MethodEnds("find_species", <<specie>>, out)
    /\ UNCHANGED <<fb, ds>>

\* ds.config_xml
ReadConfigXml ==
    /\ call.op = "none" /\ ds.exists
    /\ \E out \in {DataSet_config_xml(ds, server)} :
          /\ ds' = out.obj
          /\ MethodEnds("config_xml", <<>>, out)
    /\ UNCHANGED <<fb, db>>

\* ds.attributes
ReadAttributes ==
    /\ call.op = "none" /\ ds.exists
    /\ \E out \in {DataSet_attributes(ds, server)} :
          /\ ds' = out.obj
          /\ MethodEnds("attributes", <<>>, out)
    /\ UNCHANGED <<fb, db>>

\* ds.filters
ReadFilters ==
    /\ call.op = "none" /\ ds.exists
    /\ \E out \in {DataSet_filters(ds, server)} :
          /\ ds' = out.obj
          /\ MethodEnds("filters", <<>>, out)
    /\ UNCHANGED <<fb, db>>

\* ds.fetch()
FetchTable ==
    /\ call.op = "none" /\ ds.exists
    /\ \E out \in {DataSet_fetch(ds, server, None, None, TRUE)} :
          /\ ds' = out.obj
          /\ MethodEnds("fetch", <<>>, out)
    /\ UNCHANGED <<fb, db>>

\* reset_connection_params(**kwargs) on the object of the session
ResetConnectionParams(kwargs) ==
    /\ call.op = "none" /\ ~NoObject
    /\ fb' = IF fb.exists THEN reset_connection_params(fb, kwargs) ELSE fb
    /\ db' = IF db.exists THEN reset_connection_params(db, kwargs) ELSE db
    /\ ds' = IF ds.exists THEN reset_connection_params(ds, kwargs) ELSE ds
    /\ call' = Call("reset_connection_params", <<kwargs>>, NoError, <<>>, <<>>, "", "")
    /\ UNCHANGED <<server, received, pair, heap>>

\* list_databases(**kwargs)
ListDatabases(kwargs) ==
    /\ call.op = "none" /\ NoObject
    /\ \E out \in {list_databases(kwargs, server)} :
          FunctionEnds("list_databases", <<kwargs>>, out)

\* find_dataset(database_name, species, **kwargs)
FindDataset(database_name, species, kwargs) ==
    /\ call.op = "none" /\ NoObject
    /\ \E out \in {find_dataset(database_name, species, kwargs, server)} :
          FunctionEnds("find_dataset", <<database_name, species, kwargs>>, out)

\* get_attributes(dataset_name, database_name, species_name, **kwargs)
GetAttributes(names, kwargs) ==
    /\ call.op = "none" /\ NoObject
    /\ \E out \in {get_attributes(names[1], names[2], names[3], kwargs, server)} :
          FunctionEnds("get_attributes", <<names, kwargs>>, out)

\* get_filters(dataset_name, database_name, species_name, **kwargs)
GetFilters(names, kwargs) ==
    /\ call.op = "none" /\ NoObject
    /\ \E out \in {get_filters(names[1], names[2], names[3], kwargs, server)} :
          FunctionEnds("get_filters", <<names, kwargs>>, out)

\* fetch_data(dataset_name, database_name, species_name, **kwargs)
FetchDataDefaults(names, kwargs) ==
    /\ call.op = "none" /\ NoObject
    /\ \E out \in {fetch_data_defaults(names[1], names[2], names[3], kwargs, server)} :
          FunctionEnds("fetch_data", <<names, kwargs>>, out)

NextService ==
    \/ ReadDatabases
    \/ PrintDatabases
    \/ ReadDatasets
    \/ \E specie \in SpeciesNames : LookUpSpecies(specie)
    \/ ReadConfigXml
    \/ ReadAttributes
    \/ ReadFilters
    \/ FetchTable
    \/ \E kwargs \in ResetArgs : ResetConnectionParams(kwargs)
    \/ \E kwargs \in Overrides : ListDatabases(kwargs)
    \/ \E database_name \in DatabaseArgs, species \in SpeciesNames, kwargs \in Overrides :
          FindDataset(database_name, species, kwargs)
    \/ \E names \in DatasetArgs, kwargs \in Overrides : GetAttributes(names, kwargs)
    \/ \E names \in DatasetArgs, kwargs \in Overrides : GetFilters(names, kwargs)
    \/ \E names \in DatasetArgs, kwargs \in Overrides : FetchDataDefaults(names, kwargs)
    \/ Return

SpecService == InitService /\ [][NextService]_vars

(***************************************************************************)
(* Two instances of one class.  A field that holds a list or a table holds *)
(* a reference to it: in pair the field is the address of the object, and  *)
(* heap[address] is the object, a sequence of rows.  The connection        *)
(* parameters, the name and _config_xml hold values that no code changes   *)
(* in place, so they stay in the instance.                                 *)
(***************************************************************************)
\* the fields that hold a reference to a list or a table
ListFields == {"attributes", "filters", "datasets", "databases"}

\* the address of an object made now; no object is freed in a session
new_object(h) == Len(h) + 1

\* a default that is one list of the class, the k-th, for every instance
default_factory_class_level(h, k) == k

\* field(default_factory=list) (base.py 286, 381-382): list() is called at
\* each construction, for the k-th such field of the class as for any other
default_factory(h, k) == new_object(h)

\* the heap once an object, empty when it is made, is at address a
allocate(h, a) == IF a <= Len(h) THEN h ELSE Append(h, <<>>)

\* DataSet(name=name, **kwargs) (base.py 378-386): _attributes and _filters
\* each get the list of their default_factory
DataSet_new(h, name, kwargs) ==
    TheOnly({
        TheOnly({
            [obj |-> [DataSet_connected(name, kwargs) EXCEPT !.attributes = a,
                                                             !.filters = f],
             heap |-> allocate(allocate(h, a), f)] :
            f \in {default_factory(allocate(h, a), 2)}}) :
        a \in {default_factory(h, 1)}})

\* DataBase(name=name, **kwargs) (base.py 205-210): __post_init__ makes the
\* frame of _datasets
DataBase_new(h, name, kwargs) ==
    [obj |-> [DataBase_connected(name, kwargs) EXCEPT !.datasets = new_object(h)],
     heap |-> allocate(h, new_object(h))]

\* FrontBase(**kwargs) (base.py 277-286): _databases gets the list of its
\* default_factory
FrontBase_new(h, kwargs) ==
    TheOnly({
        [obj |-> [FrontBase(kwargs) EXCEPT !.databases = a],
         heap |-> allocate(h, a)] :
        a \in {default_factory(h, 1)}})

\* the instance as its methods see it: each reference followed
View(o, h) == [f \in DOMAIN o |-> IF f \in ListFields THEN h[o[f]] ELSE o[f]]

\* self._attributes.append(at) and self._filters.append(ft) (base.py 440,
\* 468): the rows go into the lists the fields refer to, and the fields keep
\* referring to them; new is the DataSet as its method leaves it
append_in_place(o, h, new) ==
    [obj |-> [new EXCEPT !.attributes = o.attributes, !.filters = o.filters],
     heap |-> [a \in 1..Len(h) |->
                 IF a = o.attributes THEN new.attributes
                 ELSE IF a = o.filters THEN new.filters
                 ELSE h[a]]]

\* self._datasets = self._get_datasets() and self._databases =
\* self._get_databases() (base.py 234, 292): field refers to the object that
\* the request made, and the object it referred to before stays as it was
assign(o, h, new, field) ==
    IF new[field] = h[o[field]]
    THEN [obj |-> [new EXCEPT ![field] = o[field]], heap |-> h]
    ELSE [obj |-> [new EXCEPT ![field] = new_object(h)],
          heap |-> Append(h, new[field])]

\* the instance o and the heap once a method has left the object new
store(o, h, new) ==
    IF "attributes" \in DOMAIN o THEN append_in_place(o, h, new)
    ELSE IF "datasets" \in DOMAIN o THEN assign(o, h, new, "datasets")
    ELSE assign(o, h, new, "databases")

\* populate_attributes(force) (base.py 425-441) behind a connection that may
\* fail
DataSet_populate_attributes(d, srv, force) ==
    IF Len(d.attributes) > 0 /\ ~force THEN Result(d, NoError, <<>>, d.attributes)
    ELSE TheOnly({
             IF c.err.type # "none" THEN c
             ELSE TheOnly({Result(d1, NoError, c.requests, d1.attributes) :
                           d1 \in {populate_attributes(c.obj, srv, force)}}) :
             c \in {DataSet_config_xml(d, srv)}})

\* populate_filters(force) (base.py 443-469) behind a connection that may fail
DataSet_populate_filters(d, srv, force) ==
    IF Len(d.filters) > 0 /\ ~force THEN Result(d, NoError, <<>>, d.filters)
    ELSE TheOnly({
             IF c.err.type # "none" THEN c
             ELSE TheOnly({Result(d1, NoError, c.requests, d1.filters) :
                           d1 \in {populate_filters(c.obj, srv, force)}}) :
             c \in {DataSet_config_xml(d, srv)}})

(***************************************************************************)
(* The state machine of a session that builds two instances of one class   *)
(* and calls them in any order.  The first argument kept in call is the    *)
(* instance that was called, 1 or 2.                                       *)
(***************************************************************************)
Classes == {"DataSet", "DataBase", "FrontBase"}

\* the keyword arguments the two instances are built with
PairKwargs == {<<>>, "host" :> MirrorHost}

\* the keyword arguments given to reset_connection_params of an instance
PairResetArgs == {"host" :> "http://www.nosembl.org", "host" :> DefaultHost}

\* the construction of an instance of class on the heap h
construct(class, h, kwargs) ==
    IF class = "DataSet" THEN DataSet_new(h, <<"z">>, kwargs)
    ELSE IF class = "DataBase" THEN DataBase_new(h, <<"M", "_", "B">>, kwargs)
    ELSE FrontBase_new(h, kwargs)

InitPair ==
    /\ call = Idle
    /\ fb = NoFrontBase /\ db = NoDataBase /\ ds = NoDataSet
    /\ received = NoneReceived
    /\ server = BaseService
    /\ \E class \in Classes, kwargs1 \in PairKwargs, kwargs2 \in PairKwargs :
          \E first \in {construct(class, <<>>, kwargs1)} :
             \E second \in {construct(class, first.heap, kwargs2)} :
                /\ pair = <<first.obj, second.obj>>
                /\ heap = second.heap

\* instance i of the pair is of the class that has field
Has(i, field) == Len(pair) = 2 /\ field \in DOMAIN pair[i]

\* a method of instance i ends with out
MethodOfPairEnds(i, op, args, out) ==
    /\ \E kept \in {store(pair[i], heap, out.obj)} :
          /\ pair' = [pair EXCEPT ![i] = kept.obj]
          /\ heap' = kept.heap
    /\ call' = Call(op, <<i>> \o args, out.err, <<>>, out.requests, "", out.result)
    /\ UNCHANGED <<server, fb, db, ds, received>>

\* pair[i].populate_attributes(force), also reached through pair[i].attributes
PairPopulateAttributes(i, force) ==
    /\ call.op = "none" /\ Has(i, "attributes")
    /\ force => Len(heap[pair[i].attributes])
                  < MaxCopies * Len(attribute_rows(server.config.pages, 0))
    /\ \E out \in {DataSet_populate_attributes(View(pair[i], heap), server, force)} :
          MethodOfPairEnds(i, "populate_attributes", <<force>>, out)

\* pair[i].populate_filters(force), also reached through pair[i].filters
PairPopulateFilters(i, force) ==
    /\ call.op = "none" /\ Has(i, "filters")
    /\ force => Len(heap[pair[i].filters])
                  < MaxCopies * Len(filter_rows(server.config.filters))
    /\ \E out \in {DataSet_populate_filters(View(pair[i], heap), server, force)} :
          MethodOfPairEnds(i, "populate_filters", <<force>>, out)

\* pair[i].fetch()
PairFetch(i) ==
    /\ call.op = "none" /\ Has(i, "attributes")
    /\ \E out \in {DataSet_fetch(View(pair[i], heap), server, None, None, TRUE)} :
          MethodOfPairEnds(i, "fetch", <<>>, out)

\* pair[i].datasets
PairReadDatasets(i) ==
    /\ call.op = "none" /\ Has(i, "datasets")
    /\ \E out \in {DataBase_datasets(View(pair[i], heap), server)} :
          MethodOfPairEnds(i, "datasets", <<>>, out)

\* pair[i].databases
PairReadDatabases(i) ==
    /\ call.op = "none" /\ Has(i, "databases")
    /\ \E out \in {FrontBase_databases(View(pair[i], heap), server)} :
          MethodOfPairEnds(i, "databases", <<>>, out)

\* pair[i].reset_connection_params(**kwargs)
PairResetConnectionParams(i, kwargs) ==
    /\ call.op = "none" /\ Len(pair) = 2
    /\ pair' = [pair EXCEPT ![i] = reset_connection_params(pair[i], kwargs)]
    /\ call' = Call("reset_connection_params", <<i, kwargs>>, NoError, <<>>, <<>>,
                    "", "")
    /\ UNCHANGED <<server, fb, db, ds, received, heap>>

NextPair ==
    \/ \E i \in 1..2, force \in BOOLEAN : PairPopulateAttributes(i, force)
    \/ \E i \in 1..2, force \in BOOLEAN : PairPopulateFilters(i, force)
    \/ \E i \in 1..2 : PairFetch(i)
    \/ \E i \in 1..2 : PairReadDatasets(i)
    \/ \E i \in 1..2 : PairReadDatabases(i)
    \/ \E i \in 1..2, kwargs \in PairResetArgs : PairResetConnectionParams(i, kwargs)
    \/ Return

SpecPair == InitPair /\ [][NextPair]_vars

(***************************************************************************)
(* The properties.                                                         *)
(***************************************************************************)
Range(xs) == {xs[i] : i \in 1..Len(xs)}
Names(rows) == [i \in 1..Len(rows) |-> rows[i].name]

IsFetch == call.op \in {"fetch", "fetch_data"}
QuerySent == Len(call.query) = 1

\* the attribute table the call works on: the DataSet's own, or that of the
\* DataSet which fetch_data builds
CallAttributes ==
    IF call.op = "fetch_data" THEN attribute_rows(server.config.pages, 0)
    ELSE ds.attributes

\* the error of the same call made with another attribute list and filters
ErrorWith(attributes, filters) ==
    IF call.op = "fetch_data"
    THEN fetch_data(ds.name, server, attributes, filters, call.args[4],
                    call.args[3], call.response).err
    ELSE fetch(ds, server, attributes, filters, call.args[3], call.response).err

SameError(e1, e2) == e1.type = e2.type /\ e1.msg = e2.msg

\* the rows one of whose two names is among the given names
RowsNamed(table, names) ==
    SelectSeq(table, LAMBDA row : row.name \in names \/ row.display_name \in names)

\* the given names that some row bears
NamesBorne(table, names) ==
    {n \in names : \E i \in 1..Len(table) :
                      table[i].name = n \/ table[i].display_name = n}

\* C1: fetch and fetch_data with an attribute list: the submitted query has an
\* Attribute element for exactly the rows whose internal name or display name is
\* in the list; an entry that matches no row adds no element and causes no
\* error: the call ends as it does without that entry, and with a non-empty
\* attribute table and no filters the query is submitted.
C1_UnmatchedAttributesDropped ==
    (IsFetch /\ call.args[1].k = "list") =>
        LET names == call.args[1].v
            kept == SelectSeq(names, LAMBDA n : n \in NamesBorne(CallAttributes, Range(names)))
        IN  /\ QuerySent =>
                  call.query[1].attributes = Names(RowsNamed(CallAttributes, Range(names)))
            /\ SameError(call.err, ErrorWith(PyList(kept), call.args[2]))
            /\ (Len(CallAttributes) > 0 /\ IsNone(call.args[2])
                  /\ (call.op = "fetch_data" => ~call.args[4])) => QuerySent

\* three names of which two match: two Attribute elements
C1_Witness ==
    /\ call.op = "fetch"
    /\ call.args[1].k = "list" /\ call.args[1].v = <<<<"a">>, <<"z">>, <<"A">>>>
    /\ QuerySent /\ call.err.type = "none"
    /\ call.query[1].attributes = <<<<"b">>, <<"a", "b">>>>

\* C2: fetch with a filters dictionary: the submitted query has one Filter
\* element, named by the internal name, for each filter row whose internal name
\* or display name is a key; a key that matches no row adds no element and
\* causes no error: the call ends as it does without that key.
C2_UnmatchedFiltersDropped ==
    (call.op = "fetch" /\ call.args[2].k = "dict") =>
        LET dict == call.args[2].v
            borne == NamesBorne(ds.filters, DOMAIN dict)
        IN  /\ QuerySent =>
                  /\ Len(call.query[1].filters) = Len(RowsNamed(ds.filters, DOMAIN dict))
                  /\ \A i \in 1..Len(call.query[1].filters) :
                        call.query[1].filters[i].name
                          = RowsNamed(ds.filters, DOMAIN dict)[i].name
            /\ SameError(call.err,
                         ErrorWith(call.args[1], PyDict([n \in borne |-> dict[n]])))
            /\ (borne = {} /\ Len(ds.attributes) > 0 /\ Len(ds.filters) > 0) =>
                  QuerySent /\ call.query[1].filters = <<>>

\* a dictionary with a matching key and an unmatched one: one Filter element
C2_Witness ==
    /\ call.op = "fetch" /\ call.args[2].k = "dict"
    /\ DOMAIN call.args[2].v = {<<"f">>, <<"z">>}
    /\ QuerySent /\ call.err.type = "none"
    /\ Len(ds.filters) = 2
    /\ Len(call.query[1].filters) = 1 /\ call.query[1].filters[1].name = <<"f">>

\* p is a substring of s, letter case ignored
SubstringNoCase(p, s) ==
    \E i \in 0..(Len(s) - Len(p)) : \A j \in 1..Len(p) : lower(p[j]) = lower(s[i + j])

\* the rows one of whose two names contains one of the given names, case ignored
RowsContaining(table, names) ==
    SelectSeq(table, LAMBDA row : \E n \in names :
                  SubstringNoCase(n, row.name) \/ SubstringNoCase(n, row.display_name))

\* the rows whose display name contains the name, case ignored
RowsDisplaying(table, n) ==
    SelectSeq(table, LAMBDA row : SubstringNoCase(n, row.display_name))

Underscored(n) == [i \in 1..Len(n) |-> IF n[i] = "_" THEN " " ELSE n[i]]

IsFindSpecies == call.op = "find_species"
NotFound == call.err.type = "ValueError" /\ call.err.msg = "Database does not contain"

\* C3 as stated: in find_species and in the attribute and filter selection of
\* fetch a name selects a row exactly if it is a case-insensitive substring of
\* the row's internal name or display name.
C3_SubstringEverywhere ==
    /\ (call.op = "fetch" /\ call.args[1].k = "list" /\ QuerySent) =>
          call.query[1].attributes
            = Names(RowsContaining(ds.attributes, Range(call.args[1].v)))
    /\ (call.op = "fetch" /\ call.args[2].k = "dict" /\ QuerySent) =>
          [i \in 1..Len(call.query[1].filters) |-> call.query[1].filters[i].name]
            = Names(RowsContaining(ds.filters, DOMAIN call.args[2].v))
    /\ (IsFindSpecies /\ call.err.type = "none") =>
          call.result = RowsContaining(db.datasets, {call.args[1]})

\* C3 amended: the attribute and filter selection of fetch select a row exactly
\* if a given name equals the row's internal name or display name (whole name,
\* case kept); find_species selects, for a query without regular-expression
\* characters, the rows whose display or internal name contains the query as a
\* case-insensitive substring, and when there is none the rows whose display
\* name contains the query with underscores replaced by spaces.
C3_MatchingPerOperation ==
    /\ (call.op = "fetch" /\ call.args[1].k = "list" /\ QuerySent) =>
          call.query[1].attributes = Names(RowsNamed(ds.attributes, Range(call.args[1].v)))
    /\ (call.op = "fetch" /\ call.args[2].k = "dict" /\ QuerySent) =>
          [i \in 1..Len(call.query[1].filters) |-> call.query[1].filters[i].name]
            = Names(RowsNamed(ds.filters, DOMAIN call.args[2].v))
    /\ (IsFindSpecies /\ call.err.type = "none" /\ "." \notin Range(call.args[1])) =>
          call.result
            = IF Len(RowsContaining(db.datasets, {call.args[1]})) > 0
              THEN RowsContaining(db.datasets, {call.args[1]})
              ELSE RowsDisplaying(db.datasets, Underscored(call.args[1]))

\* the name "a" is given, a row named "ab" (display name "A") exists, and the
\* query leaves that row out
C3_Witness ==
    /\ call.op = "fetch" /\ call.args[1].k = "list" /\ call.args[1].v = <<<<"a">>>>
    /\ QuerySent
    /\ \E i \in 1..Len(ds.attributes) : ds.attributes[i].name = <<"a", "b">>
    /\ \A i \in 1..Len(call.query[1].attributes) :
          call.query[1].attributes[i] # <<"a", "b">>

\* C4: find_species on a non-empty dataset list returns the rows matched on
\* display or internal name when there are any, else the rows matched by the
\* query with underscores replaced by spaces when there are any, and raises the
\* not-found error exactly when both matches are empty; it never returns an
\* empty result.
C4_FindSpeciesNeverEmpty ==
    (IsFindSpecies /\ Len(db.datasets) > 0) =>
        LET first == match_both(db.datasets, call.args[1])
            second == match_display(db.datasets, Underscored(call.args[1]))
        IN  /\ call.err.type = "none" => Len(call.result) > 0
            /\ Len(first) > 0 => call.err.type = "none" /\ call.result = first
            /\ (Len(first) = 0 /\ Len(second) > 0) =>
                  call.err.type = "none" /\ call.result = second
            /\ NotFound <=> (Len(first) = 0 /\ Len(second) = 0)
            /\ call.err.type \in {"none", "ValueError"}

\* the query "a_b" matches nothing, "a b" matches a display name
C4_Witness ==
    /\ IsFindSpecies /\ call.args[1] = <<"a", "_", "b">>
    /\ Len(match_both(db.datasets, call.args[1])) = 0
    /\ call.err.type = "none" /\ Len(call.result) = 1
    /\ call.result[1].display_name = <<"A", " ", "b">>

\* C5: the not-found error of find_species names the query string the caller
\* passed.
C5_ErrorNamesQuery ==
    (IsFindSpecies /\ NotFound) => call.err.arg = call.args[1]

\* the descriptions of a configuration in document order, each with its page
RECURSIVE Described(_, _)
Described(pages, p) ==
    IF p > Len(pages) THEN <<>>
    ELSE [k \in 1..Len(pages[p]) |-> [page |-> p, desc |-> pages[p][k]]]
         \o Described(pages, p + 1)

\* C6: after attribute population an attribute row is flagged default exactly
\* if its description is marked default="true" and stands on the first
\* attribute page (every run of the population appends one row per description,
\* in document order).
C6_DefaultOnlyOnFirstPage ==
    (ds.exists /\ ~ds.config_xml.isNone) =>
        LET flat == Described(ds.config_xml.pages, 1)
            n == Len(flat)
        IN  /\ n = 0 => ds.attributes = <<>>
            /\ n > 0 =>
                  /\ Len(ds.attributes) % n = 0
                  /\ \A i \in 1..Len(ds.attributes) :
                        LET e == flat[((i - 1) % n) + 1]
                        IN  /\ ds.attributes[i].name = e.desc.internalName
                            /\ ds.attributes[i].default
                                 <=> (e.desc.default = "true" /\ e.page = 1)

\* a description marked default on the first page is flagged, the same
\* description on the second page is not
C6_Witness ==
    /\ ds.exists /\ ~ds.config_xml.isNone /\ Len(ds.config_xml.pages) = 2
    /\ Len(ds.config_xml.pages[1]) = 1 /\ Len(ds.config_xml.pages[2]) = 1
    /\ Len(ds.attributes) = 2
    /\ ds.config_xml.pages[1][1].default = "true" /\ ds.attributes[1].default
    /\ ds.config_xml.pages[2][1].default = "true" /\ ~ds.attributes[2].default

\* C7: with no attribute list, fetch and fetch_data submit a query that selects
\* exactly the rows flagged default.
C7_DefaultsWhenNoList ==
    (IsFetch /\ IsNone(call.args[1]) /\ QuerySent) =>
        call.query[1].attributes
          = Names(SelectSeq(CallAttributes, LAMBDA row : row.default))

\* the value the caller gave for a selected row
Given(row) ==
    LET dict == call.args[2].v
    IN  IF row.name \in DOMAIN dict /\ dict[row.name].k # "None" THEN dict[row.name]
        ELSE IF row.display_name \in DOMAIN dict THEN dict[row.display_name]
        ELSE None

Including == {PyBool(TRUE), PyStr("included"), PyStr("only")}
Excluding == {PyBool(FALSE), PyStr("excluded")}

FetchWithFilters ==
    call.op = "fetch" /\ call.args[2].k = "dict" /\ Len(ds.attributes) > 0

SelectedFilters == RowsNamed(ds.filters, DOMAIN call.args[2].v)

\* C8: for a selected boolean filter the values True, "included", "only" give
\* excluded="0", the values False, "excluded" give excluded="1", and any other
\* value makes fetch fail with a ValueError, no query being sent.
C8_BooleanFilterValues ==
    FetchWithFilters =>
        /\ QuerySent =>
              \A i \in 1..Len(SelectedFilters) :
                  SelectedFilters[i].type = "boolean" =>
                      /\ Given(SelectedFilters[i]) \in Including \cup Excluding
                      /\ call.query[1].filters[i]
                           = [name |-> SelectedFilters[i].name,
                              excluded |-> IF Given(SelectedFilters[i]) \in Including
                                           THEN "0" ELSE "1"]
        /\ (\E i \in 1..Len(SelectedFilters) :
               /\ SelectedFilters[i].type = "boolean"
               /\ Given(SelectedFilters[i]) \notin Including \cup Excluding)
             => (call.err.type = "ValueError" /\ ~QuerySent)

\* a boolean filter and a list filter are selected by the key "F": given
\* True the boolean one is included, and the query is sent
C8_Witness ==
    /\ FetchWithFilters /\ Len(SelectedFilters) = 2
    /\ SelectedFilters[1].type = "boolean"
    /\ Given(SelectedFilters[1]) = PyBool(TRUE)
    /\ QuerySent /\ call.query[1].filters[1] = [name |-> <<"f">>, excluded |-> "0"]

\* a boolean filter given the integer 1 fails the call
C8_WitnessInvalid ==
    /\ FetchWithFilters /\ Len(SelectedFilters) = 1
    /\ SelectedFilters[1].type = "boolean"
    /\ Given(SelectedFilters[1]) = PyInt(1)
    /\ call.err.msg = "Invalid value for boolean filter" /\ ~QuerySent

\* the text of a scalar value of the model
ScalarText(x) ==
    IF x.k = "str" THEN x.v
    ELSE IF x.k = "bool" THEN (IF x.v THEN "True" ELSE "False")
    ELSE IF x.v = 0 THEN "0" ELSE IF x.v = 1 THEN "1" ELSE "2"

\* the text of a value of the model: a list or tuple (of at most two
\* elements) is written element by element, a comma between them
Text(x) ==
    IF x.k \notin {"list", "tuple"} THEN ScalarText(x)
    ELSE IF Len(x.v) = 0 THEN ""
    ELSE IF Len(x.v) = 1 THEN ScalarText(x.v[1])
    ELSE ScalarText(x.v[1]) \o "," \o ScalarText(x.v[2])

\* C9: for a selected filter that is not boolean a list or tuple is written as
\* its elements joined by commas in the given order, any other value as its
\* string form; the element carries the name and the value, nothing else.
C9_NonBooleanFilterValues ==
    (FetchWithFilters /\ QuerySent) =>
        \A i \in 1..Len(SelectedFilters) :
            SelectedFilters[i].type # "boolean" =>
                call.query[1].filters[i]
                  = [name |-> SelectedFilters[i].name,
                     value |-> Text(Given(SelectedFilters[i]))]

\* the list ["1", 2] given to a filter of type list is written "1,2"
C9_Witness ==
    /\ FetchWithFilters /\ QuerySent /\ Len(SelectedFilters) = 1
    /\ SelectedFilters[1].type = "list"
    /\ Given(SelectedFilters[1]) = PyList(<<PyStr("1"), PyInt(2)>>)
    /\ call.query[1].filters[1] = [name |-> <<"g">>, value |-> "1,2"]

\* C10: when a selected filter row has no value in the dictionary (none but
\* None under its internal name and under its display name), fetch fails with
\* a ValueError and sends no query request.
C10_MissingFilterValue ==
    (FetchWithFilters
       /\ \E i \in 1..Len(SelectedFilters) : Given(SelectedFilters[i]).k = "None") =>
        /\ call.err.type = "ValueError"
        /\ ~QuerySent
        /\ "query" \notin Range(call.requests)

\* the key "f" holds None, the row named "f" is selected, the call fails
\* having requested the configuration only
C10_Witness ==
    /\ FetchWithFilters /\ DOMAIN call.args[2].v = {<<"f">>}
    /\ call.args[2].v[<<"f">>].k = "None"
    /\ Len(SelectedFilters) = 1
    /\ call.err.msg = "There is no value specified for key"
    /\ call.requests = <<"configuration">>


(***************************************************************************)
(* C11: when the body answering the query holds the marker 'Query ERROR',  *)
(* fetch raises ValueError whose message is the whole body and returns no  *)
(* table; when the body does not hold the marker, fetch returns the body   *)
(* read as a table and raises nothing.                                     *)
(***************************************************************************)
MarkedResponses == {"Query ERROR", "Query ERROR: caught BioMart::Exception::Usage"}

C11_QueryErrorSurfaced ==
    (call.op = "fetch" /\ QuerySent) =>
        /\ call.response \in MarkedResponses =>
              /\ call.err.type = "ValueError"
              /\ call.err.msg = call.response
              /\ call.result = ""
        /\ call.response \notin MarkedResponses =>
              /\ call.err.type = "none"
              /\ call.result = "table"

\* a fetch answered by a body that holds the marker among other text
C11_Witness ==
    /\ call.op = "fetch" /\ QuerySent
    /\ call.response = "Query ERROR: caught BioMart::Exception::Usage"
    /\ call.err.type = "ValueError"
    /\ call.err.msg = "Query ERROR: caught BioMart::Exception::Usage"


(***************************************************************************)
(* C12: when the configuration request of a DataSet fails, the access      *)
(* raises: a connection or HTTP status error when the transport fails,     *)
(* KeyError 'Problem retrieving configuration' when the answer holds the   *)
(* marker; the DataSet keeps no configuration, no attribute and no filter, *)
(* and the next access of the DataSet that needs the configuration sends   *)
(* the configuration request again.                                        *)
(***************************************************************************)
DataSetOps == {"config_xml", "attributes", "filters", "fetch"}
TransportErrors == {"ConnectionError", "HTTPError"}

ConfigurationRequests == SelectSeq(call.requests, LAMBDA r : r.type = "configuration")

ConfigurationFailed ==
    /\ call.op \in DataSetOps
    /\ Len(ConfigurationRequests) > 0
    /\ ~ConfigurationRequests[1].ok \/ server.problem

C12_FailureLeavesNothing ==
    ConfigurationFailed =>
        /\ Len(ConfigurationRequests) = 1
        /\ ~ConfigurationRequests[1].ok => call.err.type \in TransportErrors
        /\ ConfigurationRequests[1].ok =>
              /\ call.err.type = "KeyError"
              /\ call.err.msg = "Problem retrieving configuration"
        /\ ds.config_xml.isNone /\ ds.attributes = <<>> /\ ds.filters = <<>>

C12_NextAccessRequestsAgain ==
    (call.op = "none" /\ ds.exists /\ ds.config_xml.isNone /\ call'.op \in DataSetOps)
        => \E i \in 1..Len(call'.requests) : call'.requests[i].type = "configuration"

C12_ConfigurationFailure ==
    [](C12_FailureLeavesNothing) /\ [][C12_NextAccessRequestsAgain]_vars

\* the marker was answered to a second access of the attributes
C12_Witness ==
    /\ call.op = "attributes" /\ ConfigurationFailed
    /\ call.err.type = "KeyError" /\ received.configuration = 2
    /\ ds.config_xml.isNone

\* the transport failed with an HTTP status error
C12_WitnessStatus ==
    /\ call.op = "fetch" /\ ConfigurationFailed
    /\ call.err.type = "HTTPError" /\ ds.config_xml.isNone


(***************************************************************************)
(* C13: over the accesses of one object, with no forced refresh and no     *)
(* failing request, the service answers at most one registry request of a  *)
(* FrontBase, one datasets request of a DataBase and one configuration     *)
(* request of a DataSet, whatever it answered, an empty list included.     *)
(* The service of SpecService answers a datasets request with at least one *)
(* line and a configuration request without the marker in the sessions     *)
(* this formula looks at.                                                  *)
(***************************************************************************)
C13_FetchedOnce ==
    (~server.problem /\ server.datasets # <<>>) =>
        \A type \in {"registry", "datasets", "configuration"} : received[type] <= 1


(***************************************************************************)
(* C14: after populate_attributes(force=True) or populate_filters(         *)
(* force=True) the table holds the rows that a first population from the   *)
(* configuration yields, each once.                                        *)
(***************************************************************************)
C14_ForceRepopulates ==
    /\ (call.op = "populate_attributes" /\ call.args[1])
          => ds.attributes = attribute_rows(ds.config_xml.pages, 0)
    /\ (call.op = "populate_filters" /\ call.args[1])
          => ds.filters = filter_rows(ds.config_xml.filters)


(***************************************************************************)
(* C15: every request sent during list_databases, find_dataset,            *)
(* fetch_data, get_attributes or get_filters goes to the address made of   *)
(* the connection overrides given to the call.                             *)
(***************************************************************************)
FunctionOps ==
    {"list_databases", "find_dataset", "fetch_data", "get_attributes", "get_filters"}

\* the keyword arguments of the function call that has ended
CallKwargs == call.args[Len(call.args)]

C15_OverridesApply ==
    call.op \in FunctionOps =>
        \A i \in 1..Len(call.requests) : call.requests[i].url = url(Base(CallKwargs))


(***************************************************************************)
(* C16: while the connection parameters of an object are invalid (given at *)
(* construction or set by reset_connection_params), every call of          *)
(* databases, datasets, find_species, attributes, filters and fetch ends   *)
(* with a connection error or an HTTP status error, and so does            *)
(* list_databases called with invalid overrides; none returns a result.    *)
(***************************************************************************)
Invalid(b) == get_error(b).type # "none"

\* the connection of the object that the method that has ended was called on
MethodOnInvalid ==
    \/ call.op \in {"databases", "print_databases"} /\ Invalid(fb)
    \/ call.op \in {"datasets", "find_species"} /\ Invalid(db)
    \/ call.op \in {"attributes", "filters", "fetch"} /\ Invalid(ds)

C16_InvalidConnectionFails ==
    /\ MethodOnInvalid => call.err.type \in TransportErrors
    /\ (call.op = "list_databases" /\ Invalid(Base(CallKwargs)))
          => call.err.type \in TransportErrors


(***************************************************************************)
(* C17: fetch_data, get_attributes and get_filters use a given             *)
(* dataset_name as it is; with a database name and a species name they go  *)
(* on only when the species lookup matches one dataset, and raise          *)
(* ValueError when it matches none or more than one; with neither they     *)
(* raise ValueError; a call that ends with ValueError has sent no query    *)
(* request.                                                                *)
(***************************************************************************)
ResolvingOps == {"fetch_data", "get_attributes", "get_filters"}

\* the rows of the dataset list that the species lookup matches
Matched(specie) ==
    IF Len(match_both(server.datasets, specie)) > 0
    THEN match_both(server.datasets, specie)
    ELSE match_display(server.datasets, replace(specie, "_", " "))

\* the (dataset_name, database_name, species_name) of the call that has ended
CallNames == call.args[1]

\* the call has looked the species up in a dataset list the service answered
LookedUp ==
    /\ IsNone(CallNames[1]) /\ ~IsNone(CallNames[2]) /\ ~IsNone(CallNames[3])
    /\ \E i \in 1..Len(call.requests) :
          call.requests[i].type = "datasets" /\ call.requests[i].ok
    /\ server.datasets # <<>>

\* the call has gone on to read the dataset it resolved
WentOn ==
    \E i \in 1..Len(call.requests) : call.requests[i].type = "configuration"

C17_DatasetResolution ==
    call.op \in ResolvingOps =>
        /\ ~IsNone(CallNames[1]) => WentOn
        /\ LookedUp =>
              IF Len(Matched(CallNames[3].v)) = 1
              THEN WentOn
              ELSE call.err.type = "ValueError" /\ ~WentOn
        /\ (IsNone(CallNames[1]) /\ (IsNone(CallNames[2]) \/ IsNone(CallNames[3])))
              => call.err.type = "ValueError" /\ call.requests = <<>>
        \* the ValueError of a query that the service answers with the error
        \* marker is not one of the resolution
        /\ (call.err.type = "ValueError" /\ call.err.msg \notin MarkedResponses) =>
              \A i \in 1..Len(call.requests) : call.requests[i].type # "query"


(***************************************************************************)
(* C18: on a DataSet just built, extract_homology_attributes(species,      *)
(* query) returns a list of attribute names, one for every species and     *)
(* every qualifier given: 3 species and 2 qualifiers give 6 names.         *)
(***************************************************************************)
C18_HomologyAttributesReturned ==
    call.op = "extract_homology_attributes" =>
        /\ call.err.type = "none"
        /\ Len(call.result) = Len(call.args[1]) * Len(call.args[2])


(***************************************************************************)
(* C19: find_dataset resolves a database whenever database_name equals the *)
(* internal name or the display name of a database of the registry up to   *)
(* the case of the letters and up to spaces taken for underscores, and it  *)
(* raises ValueError 'No database found' only when no database of the      *)
(* registry matches in that sense.                                         *)
(***************************************************************************)
\* a name with its letters in upper case and its spaces made underscores
Normalized(name) == [i \in 1..Len(name) |-> upper(replace(name, " ", "_")[i])]

\* the databases of the registry that database_name names in that sense
NamedDatabases(database_name) ==
    SelectSeq(server.registry,
              LAMBDA row : Normalized(row.name) = Normalized(database_name)
                           \/ Normalized(row.display_name) = Normalized(database_name))

C19_DatabaseNameNormalized ==
    (/\ call.op = "find_dataset"
     /\ Len(call.requests) > 0 /\ call.requests[1].ok
     /\ server.registry # <<>>) =>
        (call.err.msg = "No database found for query"
            <=> Len(NamedDatabases(call.args[1])) = 0)


(***************************************************************************)
(* C20: find_species on a DataBase that has no datasets raises ValueError  *)
(* 'No name for a given database', without any request, when the database  *)
(* has no name, and ValueError 'No datasets found for name' when the       *)
(* database has a name and the service answers an empty dataset list.      *)
(***************************************************************************)
\* the lookup that has ended found no dataset list, and no request failed
LookupWithoutDatasets ==
    /\ call.op = "find_species"
    /\ db.datasets = <<>>
    /\ \A i \in 1..Len(call.requests) : call.requests[i].ok

C20_NoDatasetsDistinguished ==
    LookupWithoutDatasets =>
        /\ call.err.type = "ValueError"
        /\ IF db.name = <<>>
           THEN call.err.msg = "No name for a given database" /\ call.requests = <<>>
           ELSE call.err.msg = "No datasets found for name"

(***************************************************************************)
(* C21: instances share no mutable state.  Whatever a call on one instance *)
(* of the pair does (populating attributes, filters, datasets or           *)
(* databases, a forced refresh, reset_connection_params, fetch), the       *)
(* cached tables and the connection parameters of the other instance are   *)
(* after the call what they were before it; so they are after any sequence *)
(* of calls on the one instance.                                           *)
(***************************************************************************)
\* a call on instance i ends in this step
CalledOn(i) == call.op = "none" /\ call'.op # "none" /\ call'.args[1] = i

C21_OtherInstanceUntouched ==
    \A i \in 1..2 : CalledOn(i) => View(pair'[3 - i], heap') = View(pair[3 - i], heap)

C21_InstancesShareNothing == [][C21_OtherInstanceUntouched]_vars

\* a forced refresh has just put a second copy of the rows into the attribute
\* table of the first DataSet, whose filters are read too, while the second
\* DataSet, built with another host, has nothing cached
C21_Witness ==
    /\ Has(1, "attributes")
    /\ call.op = "populate_attributes" /\ call.args = <<1, TRUE>>
    /\ call.err.type = "none"
    /\ Len(heap[pair[1].attributes]) = 2 * Len(attribute_rows(server.config.pages, 0))
    /\ Len(heap[pair[1].filters]) > 0
    /\ pair[1].host = DefaultHost
    /\ Len(heap[pair[2].attributes]) = 0 /\ Len(heap[pair[2].filters]) = 0
    /\ pair[2].config_xml.isNone
    /\ pair[2].host = MirrorHost

=============================================================================
